---- MODULE Spec2Model ----
(***************************************************************************)
(* Model of river-bsp-layout (src/src/lib.rs): the BSPLayout               *)
(* configuration, the recursive hsplit / vsplit partition engine,          *)
(* generate_layout and user_cmd.                                           *)
(*                                                                         *)
(* Numbers.  Pixel quantities are u32 / i32 in the code; the model draws   *)
(* them from small ranges, far below 2^31, so the i32 position sums never  *)
(* overflow.  The only u32 operations that can leave the range on such     *)
(* inputs are the subtractions `usable - og - og` and `canvas - 1`; Rust   *)
(* panics there when overflow checks are on (debug profile) and wraps      *)
(* modulo 2^32 when they are off (release profile), so the model takes the *)
(* profile as a nondeterministic input `build`.  A wrapped extent is not   *)
(* representable here; a call that went on with one is recorded with the   *)
(* result kind "OkWrapped" and without its rectangles.                     *)
(*                                                                         *)
(* Split percentages are f32 in the code; the model holds them as integer  *)
(* hundred-thousandths (PercDen), and draws them from values for which the *)
(* f32 product with a small extent has the integer part of the exact one.  *)
(***************************************************************************)
EXTENDS Integers, Sequences, FiniteSets, TLC

VARIABLES bsp, call

vars == <<bsp, call>>

(* ---------------------------------------------------------------------- *)
(* Bounds of the model                                                     *)
(* ---------------------------------------------------------------------- *)
MaxViews == 4
MaxUsable == 4
MaxArgs == 3

(* Value sets the inputs are drawn from *)
IgVals == {0, 1}
OgVals == {0, 1}
ValidPercs == {25000, 50000, 75000}
BadPercs == {0, 100000}
Builds == {"debug", "release"}

(* f32 fractions are held as integer hundred-thousandths: 0.5 is 50000, so *)
(* that the values between 0.9999 and 1 and between 0 and 0.0001 exist     *)
PercDen == 100000

(* ---------------------------------------------------------------------- *)
(* BSPLayout                                                               *)
(* ---------------------------------------------------------------------- *)
new ==
    [ig_left |-> 5, ig_right |-> 5, ig_bottom |-> 5, ig_top |-> 5,
     og_left |-> 10, og_right |-> 10, og_top |-> 10, og_bottom |-> 10,
     hsplit_perc |-> 50000, vsplit_perc |-> 50000,
     reversed |-> FALSE, start_hsplit |-> FALSE]

Rectangle(x, y, width, height) ==
    [x |-> x, y |-> y, width |-> width, height |-> height]

(* Outcomes of a call *)
Ok(views) == [kind |-> "Ok", views |-> views]
LayoutError == [kind |-> "LayoutError", views |-> <<>>]
CmdError == [kind |-> "CmdError", views |-> <<>>]
Panic == [kind |-> "Panic", views |-> <<>>]
StackOverflow == [kind |-> "StackOverflow", views |-> <<>>]
OkWrapped == [kind |-> "OkWrapped", views |-> <<>>]

(* What follows a u32 subtraction that left the range, in a call for      *)
(* view_count views whose split percentages are valid: the panic of the    *)
(* debug profile, or the wrapped run of the release profile, which         *)
(* recurses without end for view_count = 0.                                *)
Underflowed(build, view_count) ==
    IF build = "debug" THEN Panic
    ELSE IF view_count = 0 THEN StackOverflow
    ELSE OkWrapped

(* setup_split handing one view to the primary side and the rest on *)
setup_split_peels_one(c, view_count) ==
    IF \/ c.vsplit_perc <= 0
       \/ c.vsplit_perc >= PercDen
       \/ c.hsplit_perc <= 0
       \/ c.hsplit_perc >= PercDen
    THEN [kind |-> "LayoutError", half_view_count |-> 0, views_remaining |-> 0]
    ELSE [kind |-> "Ok",
          half_view_count |-> 1,
          views_remaining |-> view_count - 2]

(* setup_split giving the odd view to the primary side *)
setup_split_rounds_up(c, view_count) ==
    IF \/ c.vsplit_perc <= 0
       \/ c.vsplit_perc >= PercDen
       \/ c.hsplit_perc <= 0
       \/ c.hsplit_perc >= PercDen
    THEN [kind |-> "LayoutError", half_view_count |-> 0, views_remaining |-> 0]
    ELSE [kind |-> "Ok",
          half_view_count |-> (view_count + 1) \div 2,
          views_remaining |-> 0 - (view_count % 2)]

(* setup_split losing the odd view: views_remaining is always 0 *)
setup_split_drops_remainder(c, view_count) ==
    IF \/ c.vsplit_perc <= 0
       \/ c.vsplit_perc >= PercDen
       \/ c.hsplit_perc <= 0
       \/ c.hsplit_perc >= PercDen
    THEN [kind |-> "LayoutError", half_view_count |-> 0, views_remaining |-> 0]
    ELSE [kind |-> "Ok",
          half_view_count |-> view_count \div 2,
          views_remaining |-> 0]

setup_split(c, view_count) ==
    IF \/ c.vsplit_perc <= 0
       \/ c.vsplit_perc >= PercDen
       \/ c.hsplit_perc <= 0
       \/ c.hsplit_perc >= PercDen
    THEN [kind |-> "LayoutError", half_view_count |-> 0, views_remaining |-> 0]
    ELSE [kind |-> "Ok",
          half_view_count |-> view_count \div 2,
          views_remaining |-> view_count % 2]

(* prime_split_of without `if prime_split == 0 { prime_split = 1 }` *)
prime_split_of_keeps_zero(canvas, perc) ==
    LET p0 == (canvas * perc) \div PercDen
    IN  IF p0 >= canvas THEN canvas - 1 ELSE p0

(* (canvas as f32 * perc) as u32, then the two clamps; canvas >= 1 *)
prime_split_of(canvas, perc) ==
    LET p0 == (canvas * perc) \div PercDen
        p1 == IF p0 = 0 THEN 1 ELSE p0
    IN  IF p1 >= canvas THEN canvas - 1 ELSE p1

(* sub_extent without the floor of 1 *)
sub_extent_floor_zero(sub, split) ==
    IF sub < split THEN split - sub ELSE 0

(* the extent handed to a recursive call *)
sub_extent(sub, split) ==
    IF sub < split THEN split - sub ELSE 1

(* the Result of the two recursive calls, each followed by `?`, and the   *)
(* two appends                                                             *)
append_views(prime_layout, sec_layout) ==
    IF prime_layout.kind # "Ok" THEN prime_layout
    ELSE IF sec_layout.kind # "Ok" THEN sec_layout
    ELSE Ok(prime_layout.views \o sec_layout.views)

RECURSIVE hsplit(_, _, _, _, _, _, _)
RECURSIVE vsplit(_, _, _, _, _, _, _)

(* hsplit that, when reversed, places the primary without its gap *)
hsplit_reversed_drops_gap(c, build, origin_x, origin_y, canvas_width, canvas_height, view_count) ==
    LET s == setup_split(c, view_count) IN
    IF s.kind # "Ok" THEN LayoutError
    ELSE IF view_count = 1
    THEN Ok(<<Rectangle(origin_x, origin_y, canvas_width, canvas_height)>>)
    ELSE IF canvas_height = 0 THEN Underflowed(build, view_count)
    ELSE IF view_count = 0
    THEN (IF canvas_width = 0 THEN Underflowed(build, view_count)
          ELSE StackOverflow)
    ELSE
    LET prime_split == prime_split_of(canvas_height, c.hsplit_perc)
        sec_split == canvas_height - prime_split
        prime_sub == IF ~c.reversed THEN c.ig_bottom ELSE c.ig_top
        sec_sub == IF ~c.reversed THEN c.ig_top ELSE c.ig_bottom
        prime_y == IF ~c.reversed THEN origin_y
                   ELSE sec_split + origin_y
        sec_y == IF ~c.reversed THEN prime_split + origin_y + sec_sub
                 ELSE origin_y
        prime_layout == vsplit(c, build, origin_x, prime_y, canvas_width,
                               sub_extent(prime_sub, prime_split),
                               s.half_view_count)
        sec_layout == vsplit(c, build, origin_x, sec_y, canvas_width,
                             sub_extent(sec_sub, sec_split),
                             s.half_view_count + s.views_remaining)
    IN  append_views(prime_layout, sec_layout)

hsplit(c, build, origin_x, origin_y, canvas_width, canvas_height, view_count) ==
    LET s == setup_split(c, view_count) IN
    IF s.kind # "Ok" THEN LayoutError
    ELSE IF view_count = 1
    THEN Ok(<<Rectangle(origin_x, origin_y, canvas_width, canvas_height)>>)
    ELSE IF canvas_height = 0 THEN Underflowed(build, view_count)
    ELSE IF view_count = 0
    THEN (IF canvas_width = 0 THEN Underflowed(build, view_count)
          ELSE StackOverflow)
    ELSE
    LET prime_split == prime_split_of(canvas_height, c.hsplit_perc)
        sec_split == canvas_height - prime_split
        prime_sub == IF ~c.reversed THEN c.ig_bottom ELSE c.ig_top
        sec_sub == IF ~c.reversed THEN c.ig_top ELSE c.ig_bottom
        prime_y == IF ~c.reversed THEN origin_y
                   ELSE sec_split + origin_y + prime_sub
        sec_y == IF ~c.reversed THEN prime_split + origin_y + sec_sub
                 ELSE origin_y
        prime_layout == vsplit(c, build, origin_x, prime_y, canvas_width,
                               sub_extent(prime_sub, prime_split),
                               s.half_view_count)
        sec_layout == vsplit(c, build, origin_x, sec_y, canvas_width,
                             sub_extent(sec_sub, sec_split),
                             s.half_view_count + s.views_remaining)
    IN  append_views(prime_layout, sec_layout)

(* vsplit that does not swap the roles of the two gaps when reversed *)
vsplit_keeps_gap_roles(c, build, origin_x, origin_y, canvas_width, canvas_height, view_count) ==
    LET s == setup_split(c, view_count) IN
    IF s.kind # "Ok" THEN LayoutError
    ELSE IF view_count = 1
    THEN Ok(<<Rectangle(origin_x, origin_y, canvas_width, canvas_height)>>)
    ELSE IF canvas_width = 0 THEN Underflowed(build, view_count)
    ELSE IF view_count = 0
    THEN (IF canvas_height = 0 THEN Underflowed(build, view_count)
          ELSE StackOverflow)
    ELSE
    LET prime_split == prime_split_of(canvas_width, c.vsplit_perc)
        sec_split == canvas_width - prime_split
        prime_sub == c.ig_right
        sec_sub == c.ig_left
        prime_x == IF ~c.reversed THEN origin_x
                   ELSE sec_split + origin_x + prime_sub
        sec_x == IF ~c.reversed THEN prime_split + origin_x + sec_sub
                 ELSE origin_x
        prime_layout == hsplit(c, build, prime_x, origin_y,
                               sub_extent(prime_sub, prime_split),
                               canvas_height, s.half_view_count)
        sec_layout == hsplit(c, build, sec_x, origin_y,
                             sub_extent(sec_sub, sec_split),
                             canvas_height,
                             s.half_view_count + s.views_remaining)
    IN  append_views(prime_layout, sec_layout)

vsplit(c, build, origin_x, origin_y, canvas_width, canvas_height, view_count) ==
    LET s == setup_split(c, view_count) IN
    IF s.kind # "Ok" THEN LayoutError
    ELSE IF view_count = 1
    THEN Ok(<<Rectangle(origin_x, origin_y, canvas_width, canvas_height)>>)
    ELSE IF canvas_width = 0 THEN Underflowed(build, view_count)
    ELSE IF view_count = 0
    THEN (IF canvas_height = 0 THEN Underflowed(build, view_count)
          ELSE StackOverflow)
    ELSE
    LET prime_split == prime_split_of(canvas_width, c.vsplit_perc)
        sec_split == canvas_width - prime_split
        prime_sub == IF ~c.reversed THEN c.ig_right ELSE c.ig_left
        sec_sub == IF ~c.reversed THEN c.ig_left ELSE c.ig_right
        prime_x == IF ~c.reversed THEN origin_x
                   ELSE sec_split + origin_x + prime_sub
        sec_x == IF ~c.reversed THEN prime_split + origin_x + sec_sub
                 ELSE origin_x
        prime_layout == hsplit(c, build, prime_x, origin_y,
                               sub_extent(prime_sub, prime_split),
                               canvas_height, s.half_view_count)
        sec_layout == hsplit(c, build, sec_x, origin_y,
                             sub_extent(sec_sub, sec_split),
                             canvas_height,
                             s.half_view_count + s.views_remaining)
    IN  append_views(prime_layout, sec_layout)

(* The tree of calls of one hsplit / vsplit for view_count >= 1 views with *)
(* valid percentages: the call itself and, unless it is the base case, the *)
(* two calls it makes (lib.rs 231-253, 335-357).  split_calls counts the   *)
(* calls, split_depth the levels of calls below the first.                 *)
RECURSIVE split_calls(_, _)
split_calls(c, view_count) ==
    LET s == setup_split(c, view_count) IN
    IF view_count = 1 THEN 1
    ELSE 1 + split_calls(c, s.half_view_count)
           + split_calls(c, s.half_view_count + s.views_remaining)

RECURSIVE split_depth(_, _)
split_depth(c, view_count) ==
    LET s == setup_split(c, view_count)
        prime_depth == split_depth(c, s.half_view_count)
        sec_depth == split_depth(c, s.half_view_count + s.views_remaining)
    IN  IF view_count = 1 THEN 0
        ELSE 1 + (IF prime_depth > sec_depth THEN prime_depth ELSE sec_depth)

(* interior_extent forgetting the second outer gap *)
interior_extent_one_gap(usable, og_first, og_second) ==
    IF og_first > usable THEN -1 ELSE usable - og_first

(* usable - og_first - og_second in u32: the difference, or, when the     *)
(* subtraction leaves the range of u32, -1                                 *)
interior_extent(usable, og_first, og_second) ==
    IF og_first > usable \/ usable - og_first < og_second
    THEN -1
    ELSE usable - og_first - og_second

(* generate_layout handing hsplit the two origins in the wrong order *)
generate_layout_hsplit_swaps_origin(c, build, view_count, usable_width, usable_height) ==
    LET width == interior_extent(usable_width, c.og_left, c.og_right)
        height == interior_extent(usable_height, c.og_top, c.og_bottom)
    IN  IF width < 0 \/ height < 0
        THEN (IF build = "debug" THEN Panic
              ELSE IF setup_split(c, view_count).kind # "Ok" THEN LayoutError
              ELSE Underflowed(build, view_count))
        ELSE IF ~c.start_hsplit
        THEN vsplit(c, build, c.og_left, c.og_top, width, height, view_count)
        ELSE hsplit(c, build, c.og_top, c.og_left, width, height, view_count)

(* generate_layout choosing the first axis by the longer side *)
generate_layout_by_shape(c, build, view_count, usable_width, usable_height) ==
    LET width == interior_extent(usable_width, c.og_left, c.og_right)
        height == interior_extent(usable_height, c.og_top, c.og_bottom)
    IN  IF width < 0 \/ height < 0
        THEN (IF build = "debug" THEN Panic
              ELSE IF setup_split(c, view_count).kind # "Ok" THEN LayoutError
              ELSE Underflowed(build, view_count))
        ELSE IF width >= height
        THEN vsplit(c, build, c.og_left, c.og_top, width, height, view_count)
        ELSE hsplit(c, build, c.og_left, c.og_top, width, height, view_count)

(* generate_layout that always starts with vsplit *)
generate_layout_ignores_start(c, build, view_count, usable_width, usable_height) ==
    LET width == interior_extent(usable_width, c.og_left, c.og_right)
        height == interior_extent(usable_height, c.og_top, c.og_bottom)
    IN  IF width < 0 \/ height < 0
        THEN (IF build = "debug" THEN Panic
              ELSE IF setup_split(c, view_count).kind # "Ok" THEN LayoutError
              ELSE Underflowed(build, view_count))
        ELSE vsplit(c, build, c.og_left, c.og_top, width, height, view_count)

generate_layout(c, build, view_count, usable_width, usable_height) ==
    LET width == interior_extent(usable_width, c.og_left, c.og_right)
        height == interior_extent(usable_height, c.og_top, c.og_bottom)
    IN  IF width < 0 \/ height < 0
        THEN (IF build = "debug" THEN Panic
              ELSE IF setup_split(c, view_count).kind # "Ok" THEN LayoutError
              ELSE Underflowed(build, view_count))
        ELSE IF ~c.start_hsplit
        THEN vsplit(c, build, c.og_left, c.og_top, width, height, view_count)
        ELSE hsplit(c, build, c.og_left, c.og_top, width, height, view_count)

(* ---------------------------------------------------------------------- *)
(* The layout specification.  The fields of BSPLayout are public and the   *)
(* commands assign them unchecked, so the layout can hold any gaps and any *)
(* percentages, in range or not, when generate_layout is called: Init      *)
(* draws such a configuration, and the host then makes one call, for any   *)
(* view count and usable size, in either build profile.  generate_layout   *)
(* leaves the configuration alone, so one call per configuration shows all *)
(* a call can do.                                                          *)
(* ---------------------------------------------------------------------- *)
Percs == ValidPercs \cup BadPercs

InitLayout ==
    /\ bsp \in [ig_left : IgVals, ig_right : IgVals,
                ig_bottom : IgVals, ig_top : IgVals,
                og_left : OgVals, og_right : OgVals,
                og_top : OgVals, og_bottom : OgVals,
                hsplit_perc : Percs, vsplit_perc : Percs,
                reversed : BOOLEAN, start_hsplit : BOOLEAN]
    /\ call = [op |-> "new", args |-> <<>>, pre |-> bsp, result |-> Ok(<<>>)]

GenerateLayout ==
    /\ call.op = "new"
    /\ \E view_count \in 0..MaxViews, usable_width \in 0..MaxUsable,
          usable_height \in 0..MaxUsable, build \in Builds :
        /\ call' = [op |-> "generate_layout",
                    args |-> <<view_count, usable_width, usable_height>>,
                    pre |-> bsp,
                    result |-> generate_layout(bsp, build, view_count,
                                               usable_width, usable_height)]
        /\ UNCHANGED bsp

NextLayout == GenerateLayout

SpecLayout == InitLayout /\ [][NextLayout]_vars

(* ---------------------------------------------------------------------- *)
(* user_cmd                                                                *)
(*                                                                         *)
(* A command line is a finite map from option names to the value token     *)
(* that follows them.  A value token is a numeral (wellformed, with its    *)
(* value) or anything else (not wellformed); the flags carry no value.     *)
(* Gap values are u32, percentages and deltas f32 in the unit of PercDen.  *)
(* ---------------------------------------------------------------------- *)
GapOpts == {"inner-gap", "ig-left", "ig-right", "ig-bottom", "ig-top",
            "outer-gap", "og-left", "og-right", "og-bottom", "og-top"}
SetSplitOpts == {"split-perc", "hsplit-perc", "vsplit-perc"}
ChSplitOpts == {"inc-hsplit", "inc-vsplit", "dec-vsplit", "dec-hsplit"}
FlagOpts == {"start-hsplit", "start-vsplit", "reverse"}
KnownOpts == GapOpts \cup SetSplitOpts \cup ChSplitOpts \cup FlagOpts
UnknownOpts == {"foo-bar"}

Numeral(v) == [wellformed |-> TRUE, val |-> v]
Malformed == [wellformed |-> FALSE, val |-> 0]
NoValue == [wellformed |-> TRUE, val |-> 0]

GapArgs == {Numeral(0), Numeral(2), Malformed}
SetSplitArgs == {Numeral(25000), Numeral(0), Numeral(100000), Malformed}
ChSplitArgs == {Numeral(30000), Numeral(60000), Numeral(49995), Malformed}

ArgsOf(opt) ==
    IF opt \in GapOpts THEN GapArgs
    ELSE IF opt \in SetSplitOpts THEN SetSplitArgs
    ELSE IF opt \in ChSplitOpts THEN ChSplitArgs
    ELSE {NoValue}

(* Option<T>: None is <<>>, Some(v) is <<v>> *)
None == <<>>
Some(v) == <<v>>

OptionOf(line, opt) ==
    IF opt \in DOMAIN line THEN Some(line[opt].val) ELSE None

(* UserCmd::try_parse_from: an unknown keyword or a value that does not    *)
(* parse as the option's number type is an error; otherwise every field    *)
(* holds the value given for its option, if any                            *)
try_parse_from(line) ==
    IF \E opt \in DOMAIN line :
           opt \notin KnownOpts \/ ~line[opt].wellformed
    THEN [err |-> TRUE]
    ELSE [err |-> FALSE,
          default_inner_gap |-> OptionOf(line, "inner-gap"),
          ig_left |-> OptionOf(line, "ig-left"),
          ig_right |-> OptionOf(line, "ig-right"),
          ig_bottom |-> OptionOf(line, "ig-bottom"),
          ig_top |-> OptionOf(line, "ig-top"),
          default_outer_gap |-> OptionOf(line, "outer-gap"),
          og_left |-> OptionOf(line, "og-left"),
          og_right |-> OptionOf(line, "og-right"),
          og_bottom |-> OptionOf(line, "og-bottom"),
          og_top |-> OptionOf(line, "og-top"),
          default_split_perc |-> OptionOf(line, "split-perc"),
          hsplit_perc |-> OptionOf(line, "hsplit-perc"),
          vsplit_perc |-> OptionOf(line, "vsplit-perc"),
          start_hsplit |-> "start-hsplit" \in DOMAIN line,
          start_vsplit |-> "start-vsplit" \in DOMAIN line,
          inc_hsplit |-> OptionOf(line, "inc-hsplit"),
          inc_vsplit |-> OptionOf(line, "inc-vsplit"),
          dec_vsplit |-> OptionOf(line, "dec-vsplit"),
          dec_hsplit |-> OptionOf(line, "dec-hsplit"),
          reverse |-> "reverse" \in DOMAIN line]

(* `if let Some(v) = option { field = v }` *)
IfSome(option, old) == IF option # None THEN option[1] ELSE old

(* handle_start_split flipping the first split instead of setting it *)
handle_start_split_toggles(c, cmd) ==
    IF cmd.start_hsplit /\ ~cmd.start_vsplit
    THEN [c EXCEPT !.start_hsplit = ~c.start_hsplit]
    ELSE IF cmd.start_vsplit /\ ~cmd.start_hsplit
    THEN [c EXCEPT !.start_hsplit = ~c.start_hsplit]
    ELSE c

handle_start_split(c, cmd) ==
    IF cmd.start_hsplit /\ ~cmd.start_vsplit
    THEN [c EXCEPT !.start_hsplit = TRUE]
    ELSE IF cmd.start_vsplit /\ ~cmd.start_hsplit
    THEN [c EXCEPT !.start_hsplit = FALSE]
    ELSE c

(* handle_reverse setting the flag instead of flipping it *)
handle_reverse_sets(c, cmd) ==
    IF cmd.reverse THEN [c EXCEPT !.reversed = TRUE] ELSE c

handle_reverse(c, cmd) ==
    IF cmd.reverse THEN [c EXCEPT !.reversed = ~c.reversed] ELSE c

handle_set_split(c, cmd) ==
    LET d == cmd.default_split_perc IN
    [c EXCEPT !.hsplit_perc = IfSome(cmd.hsplit_perc, IfSome(d, @)),
              !.vsplit_perc = IfSome(cmd.vsplit_perc, IfSome(d, @))]

(* handle_outer_gaps storing the value of og-left in og_right as well *)
handle_outer_gaps_left_sets_right(c, cmd) ==
    LET d == cmd.default_outer_gap IN
    [c EXCEPT !.og_top = IfSome(cmd.og_top, IfSome(d, @)),
              !.og_bottom = IfSome(cmd.og_bottom, IfSome(d, @)),
              !.og_right = IfSome(cmd.og_left, IfSome(d, @)),
              !.og_left = IfSome(cmd.og_left, IfSome(d, @))]

handle_outer_gaps(c, cmd) ==
    LET d == cmd.default_outer_gap IN
    [c EXCEPT !.og_top = IfSome(cmd.og_top, IfSome(d, @)),
              !.og_bottom = IfSome(cmd.og_bottom, IfSome(d, @)),
              !.og_right = IfSome(cmd.og_right, IfSome(d, @)),
              !.og_left = IfSome(cmd.og_left, IfSome(d, @))]

handle_inner_gaps(c, cmd) ==
    LET d == cmd.default_inner_gap IN
    [c EXCEPT !.ig_top = IfSome(cmd.ig_top, IfSome(d, @)),
              !.ig_bottom = IfSome(cmd.ig_bottom, IfSome(d, @)),
              !.ig_right = IfSome(cmd.ig_right, IfSome(d, @)),
              !.ig_left = IfSome(cmd.ig_left, IfSome(d, @))]

(* 0.9999 and 0.0001, the values an inc / dec falls back to.  The sums    *)
(* and differences below are exact in the unit of PercDen; the f32 ones of *)
(* the code are rounded, so 0.5 - 0.3 is 0.19999999 there and 20000 here.  *)
IncCap == 99990
DecFloor == 10

inc_split(perc, option) ==
    IF option = None THEN perc
    ELSE IF perc + option[1] < PercDen THEN perc + option[1]
    ELSE IncCap

dec_split(perc, option) ==
    IF option = None THEN perc
    ELSE IF perc - option[1] > 0 THEN perc - option[1]
    ELSE DecFloor

handle_ch_split(c, cmd) ==
    [c EXCEPT !.hsplit_perc = dec_split(inc_split(@, cmd.inc_hsplit),
                                        cmd.dec_hsplit),
              !.vsplit_perc = dec_split(inc_split(@, cmd.inc_vsplit),
                                        cmd.dec_vsplit)]

(* the handlers in the order user_cmd runs them *)
apply_cmd(c, cmd) ==
    handle_ch_split(
        handle_inner_gaps(
            handle_outer_gaps(
                handle_set_split(
                    handle_reverse(
                        handle_start_split(c, cmd), cmd), cmd), cmd), cmd), cmd)

(* user_cmd rejecting the two start flags only after the handlers ran *)
user_cmd_checks_last(c, line) ==
    LET cmd == try_parse_from(line) IN
    IF cmd.err THEN [bsp |-> c, result |-> Ok(<<>>)]
    ELSE IF cmd.start_hsplit /\ cmd.start_vsplit
    THEN [bsp |-> apply_cmd(c, cmd), result |-> CmdError]
    ELSE [bsp |-> apply_cmd(c, cmd), result |-> Ok(<<>>)]

(* user_cmd skipping what it cannot parse and applying the rest *)
user_cmd_applies_parsable(c, line) ==
    LET parsable == {opt \in DOMAIN line :
                         opt \in KnownOpts /\ line[opt].wellformed}
        cmd == try_parse_from([opt \in parsable |-> line[opt]])
    IN  IF cmd.start_hsplit /\ cmd.start_vsplit
        THEN [bsp |-> c, result |-> CmdError]
        ELSE [bsp |-> apply_cmd(c, cmd), result |-> Ok(<<>>)]

(* the BSPLayout after the call and the Result it returns *)
user_cmd(c, line) ==
    LET cmd == try_parse_from(line) IN
    IF cmd.err THEN [bsp |-> c, result |-> Ok(<<>>)]
    ELSE IF cmd.start_hsplit /\ cmd.start_vsplit
    THEN [bsp |-> c, result |-> CmdError]
    ELSE [bsp |-> apply_cmd(c, cmd), result |-> Ok(<<>>)]

(* ---------------------------------------------------------------------- *)
(* The command specification: a BSPLayout as new() builds it, with the     *)
(* two mode flags either way, then one command of at most MaxArgs options  *)
(* ---------------------------------------------------------------------- *)
RECURSIVE OptSets(_)
OptSets(k) ==
    IF k = 0 THEN {{}}
    ELSE LET smaller == OptSets(k - 1) IN
         smaller \cup {S \cup {opt} : S \in smaller,
                                     opt \in KnownOpts \cup UnknownOpts}

RECURSIVE LinesOver(_)
LinesOver(S) ==
    IF S = {} THEN {<<>>}
    ELSE LET opt == CHOOSE o \in S : TRUE IN
         {[o \in S |-> IF o = opt THEN arg ELSE rest[o]] :
              rest \in LinesOver(S \ {opt}), arg \in ArgsOf(opt)}

InitCmd ==
    /\ bsp \in {[new EXCEPT !.start_hsplit = s, !.reversed = r] :
                    s \in BOOLEAN, r \in BOOLEAN}
    /\ call = [op |-> "new", args |-> <<>>, pre |-> bsp, result |-> Ok(<<>>)]

UserCmd ==
    /\ call.op = "new"
    /\ \E S \in OptSets(MaxArgs) : \E line \in LinesOver(S) :
        LET r == user_cmd(bsp, line) IN
        /\ bsp' = r.bsp
        /\ call' = [op |-> "user_cmd", args |-> line, pre |-> bsp,
                    result |-> r.result]

NextCmd == UserCmd

SpecCmd == InitCmd /\ [][NextCmd]_vars

(* ---------------------------------------------------------------------- *)
(* The repeated-command specification: as the command specification, and   *)
(* the host then sends the same command line once more.  The record of the *)
(* second call holds the configuration between the two calls as pre.       *)
(* ---------------------------------------------------------------------- *)
RepeatCmd ==
    /\ call.op = "user_cmd"
    /\ LET r == user_cmd(bsp, call.args) IN
        /\ bsp' = r.bsp
        /\ call' = [op |-> "user_cmd_again", args |-> call.args,
                    pre |-> bsp, result |-> r.result]

NextTwice == UserCmd \/ RepeatCmd

SpecTwice == InitCmd /\ [][NextTwice]_vars

(* ---------------------------------------------------------------------- *)
(* The command string.  user_cmd receives the text of send-layout-cmd,     *)
(* splits it at the spaces and hands the words to clap (lib.rs 475-477).   *)
(* The words are held as the sequence of the options in the order written, *)
(* each with its value token.  clap stores every option in the field of    *)
(* its name, wherever it stands on the line; an option given twice is a    *)
(* parse error.                                                            *)
(* ---------------------------------------------------------------------- *)
MaxWords == 2

Words ==
    UNION {{[opt |-> o, arg |-> a] : a \in ArgsOf(o)} :
               o \in KnownOpts \cup UnknownOpts}

RECURSIVE WordSeqs(_)
WordSeqs(k) ==
    IF k = 0 THEN {<<>>}
    ELSE LET shorter == WordSeqs(k - 1) IN
         shorter \cup {Append(ws, w) : ws \in shorter, w \in Words}

Repeats(words) ==
    \E i, j \in DOMAIN words : i < j /\ words[i].opt = words[j].opt

LineOf(words) ==
    [o \in {words[i].opt : i \in DOMAIN words} |->
        words[CHOOSE i \in DOMAIN words : words[i].opt = o].arg]

(* the options applied one after the other in the order written *)
RECURSIVE ApplyEach(_, _)
ApplyEach(c, words) ==
    IF words = <<>> THEN c
    ELSE ApplyEach(user_cmd(c, LineOf(<<Head(words)>>)).bsp, Tail(words))

(* send_layout_cmd applying the options in the order of the line *)
send_layout_cmd_in_line_order(c, words) ==
    IF Repeats(words) \/ try_parse_from(LineOf(words)).err
    THEN [bsp |-> c, result |-> Ok(<<>>)]
    ELSE IF {"start-hsplit", "start-vsplit"} \subseteq DOMAIN LineOf(words)
    THEN [bsp |-> c, result |-> CmdError]
    ELSE [bsp |-> ApplyEach(c, words), result |-> Ok(<<>>)]

send_layout_cmd(c, words) ==
    IF Repeats(words)
    THEN [bsp |-> c, result |-> Ok(<<>>)]
    ELSE user_cmd(c, LineOf(words))

SendLayoutCmd ==
    /\ call.op = "new"
    /\ \E words \in WordSeqs(MaxWords) :
        LET r == send_layout_cmd(bsp, words) IN
        /\ bsp' = r.bsp
        /\ call' = [op |-> "user_cmd", args |-> LineOf(words),
                    words |-> words, pre |-> bsp, result |-> r.result]

NextWords == SendLayoutCmd

SpecWords == InitCmd /\ [][NextWords]_vars

(* ---------------------------------------------------------------------- *)
(* The session specification: the host builds the layout with new() and    *)
(* then, in any order, sends commands (user_cmd) and demands layouts       *)
(* (generate_layout), MaxCalls calls in all.  A command here is one option *)
(* with its value, or any set of the mode flags and an unrecognized word.  *)
(* The build profile is fixed for the session.  Beside the call, the       *)
(* record keeps what the session has seen so far: the number of calls, the *)
(* call before this one, the number of commands applied that carried       *)
(* reverse, and the start flag of the last command applied that carried    *)
(* one.  A call that ended the       *)
(* process (panic, stack overflow) is the last one.                        *)
(* ---------------------------------------------------------------------- *)
MaxCalls == 2
SessionUsable == {24, 40}

SessionOptSets == OptSets(1) \cup (SUBSET (FlagOpts \cup UnknownOpts))

(* the command parsed and ran its handlers (lib.rs 491-578) *)
Applied(line) ==
    LET cmd == try_parse_from(line) IN
    ~cmd.err /\ ~(cmd.start_hsplit /\ cmd.start_vsplit)

Crashed == call.result.kind \in {"Panic", "StackOverflow"}

InitSession ==
    /\ bsp = new
    /\ \E build \in Builds :
        call = [op |-> "new", args |-> <<>>, pre |-> bsp,
                result |-> Ok(<<>>), build |-> build, count |-> 0,
                reversals |-> 0, last_start |-> "none",
                prev |-> [op |-> "none", args |-> <<>>, result |-> Ok(<<>>)]]

SessionCmd ==
    /\ call.count < MaxCalls
    /\ ~Crashed
    /\ \E S \in SessionOptSets : \E line \in LinesOver(S) :
        LET r == user_cmd(bsp, line) IN
        /\ bsp' = r.bsp
        /\ call' = [op |-> "user_cmd", args |-> line, pre |-> bsp,
                    result |-> r.result, build |-> call.build,
                    count |-> call.count + 1,
                    reversals |->
                        IF Applied(line) /\ "reverse" \in DOMAIN line
                        THEN call.reversals + 1 ELSE call.reversals,
                    last_start |->
                        IF Applied(line) /\ "start-hsplit" \in DOMAIN line
                        THEN "hsplit"
                        ELSE IF Applied(line) /\ "start-vsplit" \in DOMAIN line
                        THEN "vsplit"
                        ELSE call.last_start,
                    prev |-> [op |-> call.op, args |-> call.args,
                              result |-> call.result]]

(* SessionLayout with a generate_layout that resets the first split *)
SessionLayout_resets_start ==
    /\ call.count < MaxCalls
    /\ ~Crashed
    /\ \E view_count \in 0..MaxViews, usable_width \in SessionUsable,
          usable_height \in SessionUsable :
        /\ call' = [op |-> "generate_layout",
                    args |-> <<view_count, usable_width, usable_height>>,
                    pre |-> bsp,
                    result |-> generate_layout(bsp, call.build, view_count,
                                               usable_width, usable_height),
                    build |-> call.build, count |-> call.count + 1,
                    reversals |-> call.reversals,
                    last_start |-> call.last_start,
                    prev |-> [op |-> call.op, args |-> call.args,
                              result |-> call.result]]
        /\ bsp' = [bsp EXCEPT !.start_hsplit = FALSE]

SessionLayout ==
    /\ call.count < MaxCalls
    /\ ~Crashed
    /\ \E view_count \in 0..MaxViews, usable_width \in SessionUsable,
          usable_height \in SessionUsable :
        /\ call' = [op |-> "generate_layout",
                    args |-> <<view_count, usable_width, usable_height>>,
                    pre |-> bsp,
                    result |-> generate_layout(bsp, call.build, view_count,
                                               usable_width, usable_height),
                    build |-> call.build, count |-> call.count + 1,
                    reversals |-> call.reversals,
                    last_start |-> call.last_start,
                    prev |-> [op |-> call.op, args |-> call.args,
                              result |-> call.result]]
        /\ UNCHANGED bsp

NextSession == SessionCmd \/ SessionLayout

SpecSession == InitSession /\ [][NextSession]_vars

(* ---------------------------------------------------------------------- *)
(* Vocabulary of the properties of generate_layout                         *)
(* ---------------------------------------------------------------------- *)
IsGenerate == call.op = "generate_layout"
ViewCount == call.args[1]
UsableWidth == call.args[2]
UsableHeight == call.args[3]

(* the interior canvas, as integers: negative when the outer gaps exceed   *)
(* the usable extent                                                       *)
CanvasWidth == UsableWidth - call.pre.og_left - call.pre.og_right
CanvasHeight == UsableHeight - call.pre.og_top - call.pre.og_bottom

ValidRatios ==
    /\ 0 < call.pre.vsplit_perc /\ call.pre.vsplit_perc < PercDen
    /\ 0 < call.pre.hsplit_perc /\ call.pre.hsplit_perc < PercDen

(* a generate_layout call of the kind the tiling properties speak of *)
TilingCall ==
    /\ IsGenerate
    /\ ViewCount >= 1
    /\ CanvasWidth > 0
    /\ CanvasHeight > 0
    /\ ValidRatios

Views == call.result.views

SharePixel(r, q) ==
    /\ r.x < q.x + q.width /\ q.x < r.x + r.width
    /\ r.y < q.y + q.height /\ q.y < r.y + r.height

Covers(r, px, py) ==
    /\ r.x <= px /\ px < r.x + r.width
    /\ r.y <= py /\ py < r.y + r.height

(* C1: for n >= 1, an interior canvas of positive width and height and     *)
(* valid split ratios, generate_layout returns Ok with exactly n           *)
(* rectangles, whatever the gaps.                                          *)
C1_ExactlyNRectangles ==
    TilingCall => /\ call.result.kind = "Ok"
                  /\ Len(Views) = ViewCount

C1_Witness ==
    /\ TilingCall
    /\ ViewCount = 3
    /\ CanvasWidth = 1
    /\ call.pre.ig_left = 1
    /\ call.result.kind = "Ok"
    /\ Len(Views) = 3

(* C2: under the same conditions no two of the returned rectangles share   *)
(* a pixel.                                                                *)
C2_NoOverlap ==
    TilingCall =>
        \A i, j \in 1..Len(Views) : i < j => ~SharePixel(Views[i], Views[j])

(* C3: every returned rectangle lies within the canvas left by the outer   *)
(* gaps.                                                                   *)
C3_WithinCanvas ==
    TilingCall =>
        \A i \in 1..Len(Views) :
            /\ call.pre.og_left <= Views[i].x
            /\ Views[i].x + Views[i].width <= UsableWidth - call.pre.og_right
            /\ call.pre.og_top <= Views[i].y
            /\ Views[i].y + Views[i].height <= UsableHeight - call.pre.og_bottom

(* The gap strips of a tiling: at each split, the band between the two     *)
(* sibling sub-partitions, across the whole other extent of the parent.    *)
(* A strip is [x0, x1) x [y0, y1).                                         *)
RECURSIVE GapStripsH(_, _, _, _, _, _)
RECURSIVE GapStripsV(_, _, _, _, _, _)

GapStripsH(c, origin_x, origin_y, canvas_width, canvas_height, view_count) ==
    IF view_count <= 1 THEN {}
    ELSE
    LET p0 == (canvas_height * c.hsplit_perc) \div PercDen
        p1 == IF p0 = 0 THEN 1 ELSE p0
        prime == IF p1 >= canvas_height THEN canvas_height - 1 ELSE p1
        sec == canvas_height - prime
        half == view_count \div 2
        prime_gap == IF c.reversed THEN c.ig_top ELSE c.ig_bottom
        sec_gap == IF c.reversed THEN c.ig_bottom ELSE c.ig_top
        prime_h == IF prime_gap < prime THEN prime - prime_gap ELSE 1
        sec_h == IF sec_gap < sec THEN sec - sec_gap ELSE 1
        prime_y == IF c.reversed THEN origin_y + sec + prime_gap ELSE origin_y
        sec_y == IF c.reversed THEN origin_y ELSE origin_y + prime + sec_gap
        strip == IF c.reversed
                 THEN [x0 |-> origin_x, x1 |-> origin_x + canvas_width,
                       y0 |-> sec_y + sec_h, y1 |-> prime_y]
                 ELSE [x0 |-> origin_x, x1 |-> origin_x + canvas_width,
                       y0 |-> prime_y + prime_h, y1 |-> sec_y]
    IN  {strip}
        \cup GapStripsV(c, origin_x, prime_y, canvas_width, prime_h, half)
        \cup GapStripsV(c, origin_x, sec_y, canvas_width, sec_h,
                        view_count - half)

GapStripsV(c, origin_x, origin_y, canvas_width, canvas_height, view_count) ==
    IF view_count <= 1 THEN {}
    ELSE
    LET p0 == (canvas_width * c.vsplit_perc) \div PercDen
        p1 == IF p0 = 0 THEN 1 ELSE p0
        prime == IF p1 >= canvas_width THEN canvas_width - 1 ELSE p1
        sec == canvas_width - prime
        half == view_count \div 2
        prime_gap == IF c.reversed THEN c.ig_left ELSE c.ig_right
        sec_gap == IF c.reversed THEN c.ig_right ELSE c.ig_left
        prime_w == IF prime_gap < prime THEN prime - prime_gap ELSE 1
        sec_w == IF sec_gap < sec THEN sec - sec_gap ELSE 1
        prime_x == IF c.reversed THEN origin_x + sec + prime_gap ELSE origin_x
        sec_x == IF c.reversed THEN origin_x ELSE origin_x + prime + sec_gap
        strip == IF c.reversed
                 THEN [x0 |-> sec_x + sec_w, x1 |-> prime_x,
                       y0 |-> origin_y, y1 |-> origin_y + canvas_height]
                 ELSE [x0 |-> prime_x + prime_w, x1 |-> sec_x,
                       y0 |-> origin_y, y1 |-> origin_y + canvas_height]
    IN  {strip}
        \cup GapStripsH(c, prime_x, origin_y, prime_w, canvas_height, half)
        \cup GapStripsH(c, sec_x, origin_y, sec_w, canvas_height,
                        view_count - half)

GapStrips ==
    IF call.pre.start_hsplit
    THEN GapStripsH(call.pre, call.pre.og_left, call.pre.og_top,
                    CanvasWidth, CanvasHeight, ViewCount)
    ELSE GapStripsV(call.pre, call.pre.og_left, call.pre.og_top,
                    CanvasWidth, CanvasHeight, ViewCount)

InStrip(st, px, py) ==
    /\ st.x0 <= px /\ px < st.x1
    /\ st.y0 <= py /\ py < st.y1

RECURSIVE AreaSum(_)
AreaSum(views) ==
    IF views = <<>> THEN 0
    ELSE Head(views).width * Head(views).height + AreaSum(Tail(views))

NoInnerGaps ==
    /\ call.pre.ig_left = 0 /\ call.pre.ig_right = 0
    /\ call.pre.ig_top = 0 /\ call.pre.ig_bottom = 0

(* C4: the rectangles and the inner-gap strips reconstruct the interior    *)
(* canvas: every pixel of it lies in exactly one rectangle or in a gap     *)
(* strip between two siblings, and with all inner gaps 0 the areas of the  *)
(* rectangles sum to interior_width * interior_height.                     *)
C4_Reconstructs ==
    TilingCall =>
        /\ \A px \in call.pre.og_left .. (call.pre.og_left + CanvasWidth - 1),
              py \in call.pre.og_top .. (call.pre.og_top + CanvasHeight - 1) :
              \/ Cardinality({i \in 1..Len(Views) : Covers(Views[i], px, py)}) = 1
              \/ /\ \A i \in 1..Len(Views) : ~Covers(Views[i], px, py)
                 /\ \E st \in GapStrips : InStrip(st, px, py)
        /\ NoInnerGaps => AreaSum(Views) = CanvasWidth * CanvasHeight

(* C5: with view_count = 1 and valid split ratios the result is the one    *)
(* rectangle (og_left, og_top, usable_width - og_left - og_right,          *)
(* usable_height - og_top - og_bottom), whatever the inner gaps, the split *)
(* percentages, start_hsplit and reversed are; the rectangle exists when   *)
(* the outer gaps do not exceed the usable extent.                         *)
C5_SingleViewIsCanvas ==
    (/\ IsGenerate
     /\ ViewCount = 1
     /\ ValidRatios
     /\ CanvasWidth >= 0
     /\ CanvasHeight >= 0)
    => call.result = Ok(<<Rectangle(call.pre.og_left, call.pre.og_top,
                                    CanvasWidth, CanvasHeight)>>)

C5_Witness ==
    /\ IsGenerate
    /\ ViewCount = 1
    /\ ValidRatios
    /\ call.pre.og_left = 1 /\ call.pre.og_right = 1
    /\ call.pre.og_top = 0 /\ call.pre.og_bottom = 1
    /\ call.pre.ig_left = 1
    /\ call.pre.reversed /\ call.pre.start_hsplit
    /\ call.pre.vsplit_perc # call.pre.hsplit_perc
    /\ call.result = Ok(<<Rectangle(1, 0, 2, 3)>>)

(* C6: whenever vsplit_perc or hsplit_perc is <= 0 or >= 1 at the call,    *)
(* generate_layout fails with LayoutError and returns no rectangles, for   *)
(* every view_count and every canvas.                                      *)
C6_BadRatioIsLayoutError ==
    (IsGenerate /\ ~ValidRatios) => call.result = LayoutError

(* C7: generate_layout fails with LayoutError, without underflow or panic, *)
(* whenever the interior canvas is degenerate: og_left + og_right >=       *)
(* usable_width or og_top + og_bottom >= usable_height.                    *)
C7_DegenerateCanvasIsLayoutError ==
    (IsGenerate /\ (CanvasWidth <= 0 \/ CanvasHeight <= 0))
    => call.result = LayoutError

(* ---------------------------------------------------------------------- *)
(* Vocabulary of the properties of user_cmd                                *)
(* ---------------------------------------------------------------------- *)
IsUserCmd == call.op = "user_cmd"
Line == call.args

(* the line has an unrecognized keyword, or a recognized keyword whose     *)
(* numeric argument is malformed                                           *)
Unparsable ==
    \E opt \in DOMAIN Line :
        \/ opt \notin KnownOpts
        \/ opt \notin FlagOpts /\ ~Line[opt].wellformed

(* the line sets a split percentage to a value outside (0,1) *)
SetsSplitOutOfRange ==
    \E opt \in DOMAIN Line \cap SetSplitOpts :
        /\ Line[opt].wellformed
        /\ (Line[opt].val <= 0 \/ Line[opt].val >= PercDen)

(* C8: user_cmd given an unrecognized keyword, or a malformed numeric      *)
(* argument to a recognized keyword, returns Err(CmdError).                *)
C8_UnparsableIsCmdError ==
    (IsUserCmd /\ Unparsable) => call.result.kind = "CmdError"

(* C9: a set command (split-perc, vsplit-perc, hsplit-perc) whose value is *)
(* not in (0,1) fails with CmdError and leaves vsplit_perc and hsplit_perc *)
(* at their previous values.                                               *)
C9_OutOfRangeSetRejected ==
    (IsUserCmd /\ SetsSplitOutOfRange) =>
        /\ call.result.kind = "CmdError"
        /\ bsp.vsplit_perc = call.pre.vsplit_perc
        /\ bsp.hsplit_perc = call.pre.hsplit_perc

(* C10: whenever user_cmd returns an error, every field of the             *)
(* configuration equals its value before the call; a command with both     *)
(* start-hsplit and start-vsplit applies none of its other options.        *)
C10_ErrorLeavesConfiguration ==
    (IsUserCmd /\ call.result.kind # "Ok") => bsp = call.pre

C10_Witness ==
    /\ IsUserCmd
    /\ call.result.kind = "CmdError"
    /\ {"start-hsplit", "start-vsplit", "reverse"} = DOMAIN Line
    /\ bsp = call.pre

(* C11: starting from new(), after any sequence of user_cmd calls, both   *)
(* split percentages lie strictly between 0 and 1.                         *)
SplitPercsInRange(c) ==
    /\ 0 < c.vsplit_perc /\ c.vsplit_perc < PercDen
    /\ 0 < c.hsplit_perc /\ c.hsplit_perc < PercDen

C11_SplitPercsStayInRange == SplitPercsInRange(bsp)

Min(a, b) == IF a < b THEN a ELSE b
Max(a, b) == IF a > b THEN a ELSE b

(* the command is the single option opt with a numeral as its value *)
SoleOption(opt) ==
    IsUserCmd /\ DOMAIN Line = {opt} /\ Line[opt].wellformed

(* C12: inc-vsplit / inc-hsplit by a delta > 0 sets the field to           *)
(* min(field + delta, 0.9999), and dec-vsplit / dec-hsplit by a delta > 0  *)
(* sets it to max(field - delta, 0.0001).                                  *)
C12_ChangeSplitClamps ==
    /\ (SoleOption("inc-vsplit") /\ Line["inc-vsplit"].val > 0) =>
           bsp.vsplit_perc =
               Min(call.pre.vsplit_perc + Line["inc-vsplit"].val, IncCap)
    /\ (SoleOption("inc-hsplit") /\ Line["inc-hsplit"].val > 0) =>
           bsp.hsplit_perc =
               Min(call.pre.hsplit_perc + Line["inc-hsplit"].val, IncCap)
    /\ (SoleOption("dec-vsplit") /\ Line["dec-vsplit"].val > 0) =>
           bsp.vsplit_perc =
               Max(call.pre.vsplit_perc - Line["dec-vsplit"].val, DecFloor)
    /\ (SoleOption("dec-hsplit") /\ Line["dec-hsplit"].val > 0) =>
           bsp.hsplit_perc =
               Max(call.pre.hsplit_perc - Line["dec-hsplit"].val, DecFloor)

(* C13: a command that cannot be parsed (unrecognized keyword or malformed *)
(* argument) leaves every field of the configuration unchanged, also when  *)
(* the line carries valid options beside the bad one.                      *)
C13_UnparsableLeavesConfiguration ==
    (IsUserCmd /\ Unparsable) => bsp = call.pre

C13_Witness ==
    /\ IsUserCmd
    /\ DOMAIN Line = {"ig-left", "foo-bar", "reverse"}
    /\ Line["ig-left"].wellformed
    /\ Line["ig-left"].val # call.pre.ig_left
    /\ bsp = call.pre

(* the options of the set commands *)
SetOpts == GapOpts \cup SetSplitOpts \cup {"start-hsplit", "start-vsplit"}

IsRepeat == call.op = "user_cmd_again"

(* C14: applying the same set command (any combination of inner-gap, ig-*, *)
(* outer-gap, og-*, split-perc, vsplit-perc, hsplit-perc, start-hsplit or  *)
(* start-vsplit options) a second time leaves the configuration as the     *)
(* first application left it.                                              *)
C14_SetIsIdempotent ==
    (IsRepeat /\ DOMAIN Line # {} /\ DOMAIN Line \subseteq SetOpts) =>
        bsp = call.pre

C14_Witness ==
    /\ IsRepeat
    /\ DOMAIN Line = {"start-hsplit", "outer-gap", "vsplit-perc"}
    /\ \A opt \in DOMAIN Line : Line[opt].wellformed
    /\ call.result.kind = "Ok"
    /\ bsp.start_hsplit
    /\ bsp.og_left = Line["outer-gap"].val
    /\ bsp.vsplit_perc = Line["vsplit-perc"].val
    /\ bsp = call.pre

(* the call cl is the command `reverse` and nothing else *)
IsReverseCmd(cl) == cl.op = "user_cmd" /\ DOMAIN cl.args = {"reverse"}

(* C15: the reverse command flips reversed and changes no other field;     *)
(* two reverse commands in succession restore the configuration; and after *)
(* k reverse commands reversed has its initial value iff k is even.        *)
C15_ReverseToggles ==
    [][/\ IsReverseCmd(call') => bsp' = [bsp EXCEPT !.reversed = ~bsp.reversed]
       /\ (IsReverseCmd(call) /\ IsReverseCmd(call')) => bsp' = call.pre
       /\ (bsp'.reversed = new.reversed) <=> (call'.reversals % 2 = 0)]_vars

C15_Witness ==
    /\ IsReverseCmd(call)
    /\ call.reversals = 2
    /\ call.pre.reversed
    /\ ~bsp.reversed

FieldOf(opt) ==
    CASE opt = "ig-left" -> "ig_left"
      [] opt = "ig-right" -> "ig_right"
      [] opt = "ig-bottom" -> "ig_bottom"
      [] opt = "ig-top" -> "ig_top"
      [] opt = "og-left" -> "og_left"
      [] opt = "og-right" -> "og_right"
      [] opt = "og-bottom" -> "og_bottom"
      [] opt = "og-top" -> "og_top"
      [] opt = "hsplit-perc" -> "hsplit_perc"
      [] opt = "vsplit-perc" -> "vsplit_perc"

DefaultOpts == {"inner-gap", "outer-gap", "split-perc"}

(* the per-edge or per-axis options of the group of a default option *)
GroupOf(default) ==
    IF default = "inner-gap"
    THEN {"ig-left", "ig-right", "ig-bottom", "ig-top"}
    ELSE IF default = "outer-gap"
    THEN {"og-left", "og-right", "og-bottom", "og-top"}
    ELSE {"hsplit-perc", "vsplit-perc"}

(* the command is made of set options for the gaps and the percentages,    *)
(* each once and each with a numeral                                       *)
IsGroupSet ==
    /\ IsUserCmd
    /\ ~Repeats(call.words)
    /\ DOMAIN Line \subseteq GapOpts \cup SetSplitOpts
    /\ \A opt \in DOMAIN Line : Line[opt].wellformed

(* C17: after a command made of a default (inner-gap, outer-gap or         *)
(* split-perc d) and per-edge or per-axis values of its group, written in  *)
(* any order, each named field holds its own value and every other field   *)
(* of the group holds d.                                                   *)
C17_SpecificOverridesDefault ==
    IsGroupSet =>
        \A default \in DefaultOpts \cap DOMAIN Line :
            \A opt \in GroupOf(default) :
                bsp[FieldOf(opt)] =
                    IF opt \in DOMAIN Line THEN Line[opt].val
                    ELSE Line[default].val

C17_Witness ==
    /\ IsGroupSet
    /\ call.words = <<[opt |-> "ig-left", arg |-> Numeral(2)],
                      [opt |-> "inner-gap", arg |-> Numeral(0)]>>
    /\ bsp.ig_left = 2
    /\ bsp.ig_right = 0

PerFieldOpts ==
    GroupOf("inner-gap") \cup GroupOf("outer-gap") \cup GroupOf("split-perc")

(* C18: a command that is exactly one per-field set option (ig-left/right/ *)
(* top/bottom, og-left/right/top/bottom, vsplit-perc, hsplit-perc) assigns *)
(* the named field and leaves every other field of the configuration.      *)
C18_PerFieldSetChangesOneField ==
    \A opt \in PerFieldOpts :
        SoleOption(opt) =>
            bsp = [call.pre EXCEPT ![FieldOf(opt)] = Line[opt].val]

C18_Witness ==
    /\ SoleOption("og-left")
    /\ call.pre.og_left = 10
    /\ bsp.og_left = 2
    /\ bsp.og_right = 10
    /\ bsp.hsplit_perc = call.pre.hsplit_perc

SideBySide ==
    /\ Views[1].y = Views[2].y
    /\ Views[1].height = Views[2].height
    /\ Views[1].x # Views[2].x

(* the two views of a layout sit one above the other *)
Stacked ==
    /\ Views[1].x = Views[2].x
    /\ Views[1].width = Views[2].width
    /\ Views[1].y # Views[2].y

(* C20: generate_layout splits a container left/right when its width is at *)
(* least its height and top/bottom otherwise; seen on the first split, for *)
(* two views on a canvas of at least two pixels each way.                  *)
C20_SplitsAlongLongerSide ==
    (TilingCall /\ ViewCount = 2 /\ call.result.kind = "Ok"
                /\ CanvasWidth >= 2 /\ CanvasHeight >= 2) =>
        IF CanvasWidth >= CanvasHeight THEN SideBySide ELSE Stacked

(* ---------------------------------------------------------------------- *)
(* Vocabulary of the first split of a generate_layout call                 *)
(* ---------------------------------------------------------------------- *)
(* the extent the first split divides, its percentage and its primary part *)
FirstExtent ==
    IF call.pre.start_hsplit THEN CanvasHeight ELSE CanvasWidth

FirstPerc ==
    IF call.pre.start_hsplit THEN call.pre.hsplit_perc
    ELSE call.pre.vsplit_perc

FirstPrimeSplit == prime_split_of(FirstExtent, FirstPerc)

(* where a rectangle begins and ends along the axis of the first split,    *)
(* counted from the origin of the interior canvas                          *)
Begin(r) ==
    IF call.pre.start_hsplit THEN r.y - call.pre.og_top
    ELSE r.x - call.pre.og_left

End(r) ==
    IF call.pre.start_hsplit THEN r.y - call.pre.og_top + r.height
    ELSE r.x - call.pre.og_left + r.width

ClampedShare(extent, perc) ==
    Max(1, Min(extent - 1, (extent * perc) \div PercDen))

X0 == call.pre.og_left
Y0 == call.pre.og_top
PW == ClampedShare(CanvasWidth, call.pre.vsplit_perc)
PH == ClampedShare(CanvasHeight, call.pre.hsplit_perc)

(* C22: with reversed = false and n = 2 on the interior canvas             *)
(* (x0, y0, W, H), W >= 2, P = floor(W * vsplit_perc) clamped into         *)
(* [1, W-1], ig_right < P and ig_left < W - P, a left/right first split    *)
(* returns exactly (x0, y0, P - ig_right, H) and                           *)
(* (x0 + P + ig_left, y0, W - P - ig_left, H); the top/bottom first split  *)
(* is the same with hsplit_perc, ig_bottom and ig_top.                     *)
C22_TwoViewsExact ==
    (TilingCall /\ ~call.pre.reversed /\ ViewCount = 2) =>
        /\ (/\ ~call.pre.start_hsplit
            /\ CanvasWidth >= 2
            /\ call.pre.ig_right < PW
            /\ call.pre.ig_left < CanvasWidth - PW) =>
               call.result =
                   Ok(<<Rectangle(X0, Y0, PW - call.pre.ig_right,
                                  CanvasHeight),
                        Rectangle(X0 + PW + call.pre.ig_left, Y0,
                                  CanvasWidth - PW - call.pre.ig_left,
                                  CanvasHeight)>>)
        /\ (/\ call.pre.start_hsplit
            /\ CanvasHeight >= 2
            /\ call.pre.ig_bottom < PH
            /\ call.pre.ig_top < CanvasHeight - PH) =>
               call.result =
                   Ok(<<Rectangle(X0, Y0, CanvasWidth,
                                  PH - call.pre.ig_bottom),
                        Rectangle(X0, Y0 + PH + call.pre.ig_top,
                                  CanvasWidth,
                                  CanvasHeight - PH - call.pre.ig_top)>>)

C22_Witness ==
    /\ TilingCall
    /\ ~call.pre.reversed
    /\ ~call.pre.start_hsplit
    /\ ViewCount = 2
    /\ CanvasWidth = 3
    /\ call.pre.vsplit_perc < PercDen \div 3
    /\ call.pre.ig_right = 0
    /\ call.pre.ig_left = 1
    /\ Len(Views) = 2
    /\ Views[1].width = 1
    /\ Views[2].x = X0 + 2
    /\ Views[2].width = 1

(* C23: with reversed = true the primary part, emitted first, takes the    *)
(* second place: a left/right split of (x0, W) with gaps smaller than the  *)
(* extents gives primary (x0 + (W - P) + ig_left, width P - ig_left) and   *)
(* secondary (x0, width W - P - ig_right); for n = 3 the first rectangle   *)
(* is the right part at full height and the next two are the bottom and    *)
(* then the top of the left part.                                          *)
C23_ReversedSwapsPlaces ==
    (/\ TilingCall /\ call.pre.reversed /\ ~call.pre.start_hsplit
     /\ CanvasWidth >= 2
     /\ call.pre.ig_left < PW
     /\ call.pre.ig_right < CanvasWidth - PW) =>
        LET left_width == CanvasWidth - PW - call.pre.ig_right
            primary == Rectangle(X0 + (CanvasWidth - PW) + call.pre.ig_left,
                                 Y0, PW - call.pre.ig_left, CanvasHeight)
            Q == ClampedShare(CanvasHeight, call.pre.hsplit_perc)
        IN  /\ ViewCount = 2 =>
                   call.result =
                       Ok(<<primary,
                            Rectangle(X0, Y0, left_width, CanvasHeight)>>)
            /\ (/\ ViewCount = 3
                /\ CanvasHeight >= 2
                /\ call.pre.ig_top < Q
                /\ call.pre.ig_bottom < CanvasHeight - Q) =>
                   call.result =
                       Ok(<<primary,
                            Rectangle(X0,
                                      Y0 + (CanvasHeight - Q)
                                         + call.pre.ig_top,
                                      left_width, Q - call.pre.ig_top),
                            Rectangle(X0, Y0, left_width,
                                      CanvasHeight - Q
                                         - call.pre.ig_bottom)>>)

C23_Witness ==
    /\ TilingCall
    /\ call.pre.reversed
    /\ ~call.pre.start_hsplit
    /\ ViewCount = 3
    /\ CanvasWidth = 4
    /\ CanvasHeight = 4
    /\ call.pre.ig_left = 1
    /\ call.pre.ig_right = 0
    /\ call.pre.ig_top = 1
    /\ call.pre.vsplit_perc = PercDen \div 2
    /\ call.pre.hsplit_perc = PercDen \div 2
    /\ Len(Views) = 3
    /\ Views[1] = Rectangle(X0 + 3, Y0, 1, 4)
    /\ Views[2] = Rectangle(X0, Y0 + 3, 2, 1)
    /\ Views[3].y = Y0

(* C24: every rectangle generate_layout returns has width >= 1 and height *)
(* >= 1 when the interior canvas is at least 1x1, for every n >= 1 and     *)
(* every inner gap.                                                        *)
C24_ExtentsAtLeastOne ==
    (IsGenerate /\ ViewCount >= 1 /\ CanvasWidth >= 1 /\ CanvasHeight >= 1) =>
        /\ call.result.kind \in {"Ok", "LayoutError"}
        /\ ValidRatios => call.result.kind = "Ok"
        /\ \A i \in 1..Len(Views) :
               Views[i].width >= 1 /\ Views[i].height >= 1

C24_Witness ==
    /\ TilingCall
    /\ ViewCount = 4
    /\ CanvasWidth = 2
    /\ CanvasHeight = 1
    /\ call.pre.ig_right = 1
    /\ call.pre.ig_left = 1
    /\ Len(Views) = 4
    /\ \A i \in 1..4 : Views[i].width = 1 /\ Views[i].height = 1

(* where a rectangle begins along the other axis, and its two extents *)
CrossBegin(r) ==
    IF call.pre.start_hsplit THEN r.x - call.pre.og_left
    ELSE r.y - call.pre.og_top

Extent(r) == End(r) - Begin(r)

CrossExtent(r) == IF call.pre.start_hsplit THEN r.width ELSE r.height

(* r and q are the two sides of a split on the starting axis, or on the    *)
(* other axis                                                              *)
OnStartAxis(r, q) ==
    /\ CrossBegin(r) = CrossBegin(q)
    /\ CrossExtent(r) = CrossExtent(q)
    /\ Begin(r) # Begin(q)

OnOtherAxis(r, q) ==
    /\ Begin(r) = Begin(q)
    /\ Extent(r) = Extent(q)
    /\ CrossBegin(r) # CrossBegin(q)

RECURSIVE CeilLog2(_)
CeilLog2(n) == IF n <= 1 THEN 0 ELSE 1 + CeilLog2((n + 1) \div 2)

(* C26: for n >= 1 views, valid percentages and an interior canvas of at   *)
(* least 1x1, generate_layout returns; the recursion makes exactly 2n - 1  *)
(* calls of hsplit / vsplit and nests at most ceil(log2 n) levels below    *)
(* the first call.                                                         *)
C26_TerminatesInLogDepth ==
    TilingCall =>
        /\ call.result.kind = "Ok"
        /\ split_calls(call.pre, ViewCount) = 2 * ViewCount - 1
        /\ split_depth(call.pre, ViewCount) <= CeilLog2(ViewCount)

C26_Witness ==
    /\ TilingCall
    /\ ViewCount = 3
    /\ call.result.kind = "Ok"
    /\ Len(Views) = 3
    /\ split_calls(call.pre, ViewCount) = 5
    /\ split_depth(call.pre, ViewCount) = 2

(* C27: generate_layout with view_count = 0 returns a layout of 0          *)
(* rectangles; stated for valid percentages and an interior canvas of at   *)
(* least 1x1.                                                              *)
C27_ZeroViewsIsEmptyLayout ==
    (/\ IsGenerate /\ ViewCount = 0 /\ ValidRatios
     /\ CanvasWidth >= 1 /\ CanvasHeight >= 1) =>
        call.result = Ok(<<>>)

(* the transposed configuration, rectangle and result *)
Transposed(c) ==
    [ig_left |-> c.ig_top, ig_top |-> c.ig_left,
     ig_right |-> c.ig_bottom, ig_bottom |-> c.ig_right,
     og_left |-> c.og_top, og_top |-> c.og_left,
     og_right |-> c.og_bottom, og_bottom |-> c.og_right,
     hsplit_perc |-> c.vsplit_perc, vsplit_perc |-> c.hsplit_perc,
     reversed |-> c.reversed, start_hsplit |-> ~c.start_hsplit]

TransposedRect(r) == Rectangle(r.y, r.x, r.height, r.width)

TransposedResult(res) ==
    [kind |-> res.kind,
     views |-> [i \in 1..Len(res.views) |-> TransposedRect(res.views[i])]]

(* C28: for every configuration, n >= 1 and canvas, generate_layout on the *)
(* transposed configuration (start_hsplit negated, the percentages         *)
(* swapped, ig_left with ig_top, ig_right with ig_bottom, og_left with     *)
(* og_top, og_right with og_bottom swapped, same reversed) and the         *)
(* transposed canvas returns, position by position, the rectangles of the  *)
(* call with x and y swapped and width and height swapped.                 *)
C28_TranspositionSymmetry ==
    (IsGenerate /\ ViewCount >= 1) =>
        \A build \in Builds :
            call.result = generate_layout(call.pre, build, ViewCount,
                                          UsableWidth, UsableHeight) =>
                generate_layout(Transposed(call.pre), build, ViewCount,
                                UsableHeight, UsableWidth)
                    = TransposedResult(call.result)

C28_Witness ==
    /\ TilingCall
    /\ ViewCount = 3
    /\ CanvasWidth = 4
    /\ CanvasHeight = 2
    /\ call.pre.og_left = 0 /\ call.pre.og_top = 1
    /\ call.pre.ig_left = 1 /\ call.pre.ig_top = 0
    /\ call.pre.vsplit_perc # call.pre.hsplit_perc
    /\ call.result.kind = "Ok"
    /\ Len(Views) = 3
    /\ generate_layout(Transposed(call.pre), "release", ViewCount,
                       UsableHeight, UsableWidth)
           = TransposedResult(call.result)

(* every split of the call tree acts on an extent >= 2 and takes from each *)
(* of its two parts a gap smaller than the part                            *)
RECURSIVE RoomyH(_, _, _, _)
RECURSIVE RoomyV(_, _, _, _)
RoomyH(c, canvas_width, canvas_height, view_count) ==
    \/ view_count = 1
    \/ LET s == setup_split(c, view_count)
           prime_split == prime_split_of(canvas_height, c.hsplit_perc)
           sec_split == canvas_height - prime_split
       IN  /\ canvas_height >= 2
           /\ c.ig_bottom < prime_split /\ c.ig_top < prime_split
           /\ c.ig_bottom < sec_split /\ c.ig_top < sec_split
           /\ RoomyV(c, canvas_width, prime_split - c.ig_bottom,
                     s.half_view_count)
           /\ RoomyV(c, canvas_width, sec_split - c.ig_top,
                     s.half_view_count + s.views_remaining)

RoomyV(c, canvas_width, canvas_height, view_count) ==
    \/ view_count = 1
    \/ LET s == setup_split(c, view_count)
           prime_split == prime_split_of(canvas_width, c.vsplit_perc)
           sec_split == canvas_width - prime_split
       IN  /\ canvas_width >= 2
           /\ c.ig_right < prime_split /\ c.ig_left < prime_split
           /\ c.ig_right < sec_split /\ c.ig_left < sec_split
           /\ RoomyH(c, prime_split - c.ig_right, canvas_height,
                     s.half_view_count)
           /\ RoomyH(c, sec_split - c.ig_left, canvas_height,
                     s.half_view_count + s.views_remaining)

Roomy ==
    IF call.pre.start_hsplit
    THEN RoomyH(call.pre, CanvasWidth, CanvasHeight, ViewCount)
    ELSE RoomyV(call.pre, CanvasWidth, CanvasHeight, ViewCount)

SymmetricGaps ==
    /\ call.pre.ig_left = call.pre.ig_right
    /\ call.pre.ig_top = call.pre.ig_bottom

(* the point reflection of a rectangle through the centre of the interior  *)
(* canvas                                                                  *)
Reflected(r) ==
    Rectangle(2 * call.pre.og_left + CanvasWidth - r.x - r.width,
              2 * call.pre.og_top + CanvasHeight - r.y - r.height,
              r.width, r.height)

(* C29: with ig_left = ig_right and ig_top = ig_bottom, on a canvas where  *)
(* every split acts on an extent >= 2 with both gaps smaller than the two  *)
(* parts, the call with reversed toggled returns at each position the      *)
(* point reflection, through the centre of the interior canvas, of the     *)
(* rectangle this call returns there.                                      *)
C29_ReversedIsPointReflection ==
    (TilingCall /\ SymmetricGaps /\ Roomy) =>
        /\ call.result.kind = "Ok"
        /\ \A build \in Builds :
               generate_layout([call.pre EXCEPT !.reversed = ~call.pre.reversed],
                               build, ViewCount, UsableWidth, UsableHeight)
                   = Ok([i \in 1..Len(Views) |-> Reflected(Views[i])])

C29_Witness ==
    /\ TilingCall /\ SymmetricGaps /\ Roomy
    /\ ViewCount = 3
    /\ call.pre.ig_left = 1 /\ call.pre.ig_top = 1
    /\ call.pre.start_hsplit
    /\ ~call.pre.reversed
    /\ Len(Views) = 3
    /\ Views[1].y < Views[2].y
    /\ generate_layout([call.pre EXCEPT !.reversed = TRUE], "debug",
                       ViewCount, UsableWidth, UsableHeight).views[1]
           = Reflected(Views[1])

(***************************************************************************)
(* The split percentages as the f32 values they are (lib.rs 57, 61).  A    *)
(* value is held as the integer count of 2^-30 it equals; every f32 in     *)
(* [2^-6, 2) is such a count, a multiple of the spacing of its binade.     *)
(***************************************************************************)
F32One == 1073741824
F32Mantissa == 16777216

(* the spacing of f32 values around x: 24 significant bits *)
RECURSIVE f32_ulp(_)
f32_ulp(x) == IF x < F32Mantissa THEN 1 ELSE 2 * f32_ulp(x \div 2)

(* the f32 nearest to q + r / den, ties to even; 0 <= r < den *)
f32_nearest(q, r, den) ==
    LET u == f32_ulp(q)
        m == q % u
        below == q - m
        twice == 2 * (m * den + r)
    IN  IF twice > u * den THEN below + u
        ELSE IF twice < u * den THEN below
        ELSE IF (below \div u) % 2 = 1 THEN below + u
        ELSE below

f32_round(x) == IF x < 0 THEN 0 - f32_nearest(0 - x, 0, 1) ELSE f32_nearest(x, 0, 1)

(* f32 `+` and `-`: the exact result, rounded *)
f32_add(a, b) == f32_round(a + b)
f32_sub(a, b) == f32_round(a - b)

(* str::parse::<f32> of the decimal num / den, 0 < num < den: the nearest  *)
(* f32 (below 2^-6 the nearest count)                                      *)
f32_parse(num, den) ==
    f32_nearest(num * (F32One \div den) + (num * (F32One % den)) \div den,
                (num * (F32One % den)) % den, den)

F32IncCap == f32_parse(9999, 10000)
F32DecFloor == f32_parse(1, 10000)

f32_inc_split(perc, option) ==
    IF option = None THEN perc
    ELSE IF f32_add(perc, option[1]) < F32One THEN f32_add(perc, option[1])
    ELSE F32IncCap

f32_dec_split(perc, option) ==
    IF option = None THEN perc
    ELSE IF f32_sub(perc, option[1]) > 0 THEN f32_sub(perc, option[1])
    ELSE F32DecFloor

(* the change handler taking dec-vsplit from hsplit_perc and dec-hsplit    *)
(* from vsplit_perc                                                        *)
f32_handle_ch_split_dec_swapped(c, cmd) ==
    [c EXCEPT !.hsplit_perc = f32_dec_split(f32_inc_split(@, cmd.inc_hsplit),
                                            cmd.dec_vsplit),
              !.vsplit_perc = f32_dec_split(f32_inc_split(@, cmd.inc_vsplit),
                                            cmd.dec_hsplit)]

f32_handle_ch_split(c, cmd) ==
    [c EXCEPT !.hsplit_perc = f32_dec_split(f32_inc_split(@, cmd.inc_hsplit),
                                            cmd.dec_hsplit),
              !.vsplit_perc = f32_dec_split(f32_inc_split(@, cmd.inc_vsplit),
                                            cmd.dec_vsplit)]

(* commands of one percentage option: a percentage set to 0.1, 0.2, 0.5   *)
(* or 0.00000001, a change by 0.3, 0.4 or 0.7                              *)
MaxCmds == 3
SetDecimals == {<<1, 10>>, <<2, 10>>, <<5, 10>>, <<1, 100000000>>}
DeltaTenths == {3, 4, 7}
Tenth(k) == f32_parse(k, 10)

F32Lines ==
    {[o \in {opt} |-> Numeral(f32_parse(dec[1], dec[2]))] :
        opt \in {"vsplit-perc", "hsplit-perc"}, dec \in SetDecimals}
    \cup
    {[o \in {opt} |-> Numeral(Tenth(k))] :
        opt \in ChSplitOpts, k \in DeltaTenths}

f32_new == [new EXCEPT !.hsplit_perc = Tenth(5), !.vsplit_perc = Tenth(5)]

InitF32 ==
    /\ bsp = f32_new
    /\ call = [op |-> "new", args |-> <<>>, pre |-> f32_new,
               result |-> Ok(<<>>), count |-> 0,
               prev |-> [op |-> "new", args |-> <<>>, pre |-> f32_new]]

F32UserCmd ==
    /\ call.count < MaxCmds
    /\ \E line \in F32Lines :
        LET cmd == try_parse_from(line) IN
        /\ bsp' = f32_handle_ch_split(handle_set_split(bsp, cmd), cmd)
        /\ call' = [op |-> "user_cmd", args |-> line, pre |-> bsp,
                    result |-> Ok(<<>>), count |-> call.count + 1,
                    prev |-> [op |-> call.op, args |-> call.args,
                              pre |-> call.pre]]

NextF32 == F32UserCmd

SpecF32 == InitF32 /\ [][NextF32]_vars

(* this command is `dec d` and the one before it was `inc d`, run on a     *)
(* percentage v with v + d < 1                                             *)
IncThenDec(inc, dec, field) ==
    /\ call.op = "user_cmd"
    /\ call.prev.op = "user_cmd"
    /\ DOMAIN call.args = {dec}
    /\ DOMAIN call.prev.args = {inc}
    /\ call.args[dec].val = call.prev.args[inc].val
    /\ call.prev.pre[field] + call.args[dec].val < F32One

Abs(x) == IF x < 0 THEN 0 - x ELSE x

Restores(field, other) ==
    /\ bsp[field] = call.prev.pre[field]
    /\ bsp[other] = call.prev.pre[other]

(* C30: for v in (0,1) and d > 0 with v + d < 1, inc-vsplit d followed by  *)
(* dec-vsplit d restores vsplit_perc to v (likewise inc-hsplit /           *)
(* dec-hsplit for hsplit_perc), and neither command changes the other      *)
(* percentage.                                                             *)
C30_IncThenDecRestores ==
    /\ IncThenDec("inc-vsplit", "dec-vsplit", "vsplit_perc") =>
           Restores("vsplit_perc", "hsplit_perc")
    /\ IncThenDec("inc-hsplit", "dec-hsplit", "hsplit_perc") =>
           Restores("hsplit_perc", "vsplit_perc")

(* inc d then dec d leaves the percentage within 2^-24 of v, and at v when *)
(* v + d is itself an f32; the other percentage is unchanged               *)
RestoresToRounding(field, other) ==
    LET v == call.prev.pre[field]
        d == call.args[CHOOSE o \in DOMAIN call.args : TRUE].val
    IN  /\ Abs(bsp[field] - v) <= F32One \div F32Mantissa
        /\ f32_round(v + d) = v + d => bsp[field] = v
        /\ bsp[other] = call.prev.pre[other]

(* neither command clamped: the f32 sum v + d is below 1.0 and the f32     *)
(* difference (v + d) - d is above 0.0                                     *)
NoClamp(field) ==
    LET v == call.prev.pre[field]
        d == call.args[CHOOSE o \in DOMAIN call.args : TRUE].val
    IN  /\ f32_add(v, d) < F32One
        /\ f32_sub(f32_add(v, d), d) > 0

(* C30 (amended): for v in (0,1) and d > 0 for which neither command       *)
(* clamps (the f32 sum v + d is below 1.0 and the f32 difference           *)
(* (v + d) - d is above 0.0), inc-vsplit d followed by dec-vsplit d        *)
(* restores vsplit_perc to v up to the rounding of the two f32 operations: *)
(* the result is within 2^-24 of v, and is v when v + d is exactly an f32  *)
(* (likewise inc-hsplit / dec-hsplit for hsplit_perc); neither command     *)
(* changes the other percentage.                                           *)
C30_IncThenDecRestoresToRounding ==
    /\ (IncThenDec("inc-vsplit", "dec-vsplit", "vsplit_perc")
          /\ NoClamp("vsplit_perc")) =>
           RestoresToRounding("vsplit_perc", "hsplit_perc")
    /\ (IncThenDec("inc-hsplit", "dec-hsplit", "hsplit_perc")
          /\ NoClamp("hsplit_perc")) =>
           RestoresToRounding("hsplit_perc", "vsplit_perc")

C30_Witness ==
    /\ IncThenDec("inc-vsplit", "dec-vsplit", "vsplit_perc")
    /\ NoClamp("vsplit_perc")
    /\ call.prev.pre.vsplit_perc = Tenth(5)
    /\ call.args["dec-vsplit"].val = Tenth(4)
    /\ bsp.vsplit_perc # Tenth(5)
    /\ Abs(bsp.vsplit_perc - Tenth(5)) <= F32One \div F32Mantissa
    /\ bsp.hsplit_perc = call.prev.pre.hsplit_perc

====
